---- MODULE Spec2Model ----
(***************************************************************************)
(* A model of the Tagesschau client library (src/src/lib.rs and            *)
(* src/src/blocking.rs): calendar dates and date ranges, the request       *)
(* builder and its URL construction, and the sequential fetch/aggregate    *)
(* loop of get_all_articles with its text/video projections.               *)
(*                                                                         *)
(* Strings are sequences of one-character strings, so that formatting and  *)
(* URL encoding are computed and can be parsed back.  A HashSet is a       *)
(* sequence without duplicates: the order in which the set iterates, which *)
(* std::collections::HashSet leaves unspecified and which is chosen anew   *)
(* (nondeterministically) whenever a set is built.                         *)
(***************************************************************************)
EXTENDS Integers, Sequences, FiniteSets, TLC

VARIABLES
    range,      \* outcome of the last DateRange construction
    ressort,    \* TRequestBuilder.ressort
    regions,    \* TRequestBuilder.regions, in iteration order
    timeframe,  \* TRequestBuilder.timeframe
    url,        \* outcome of the last prepare_url call
    pc,         \* position of the running get_*_articles call
    call,       \* which API method is running: "all", "text" or "video"
    dates,      \* the resolved dates still to fetch (the for loop's iterator)
    content,    \* the accumulating Vec<Content>
    inflight,   \* HTTP requests issued and not yet answered
    log,        \* every HTTP request issued by the running call, in order
    resp,       \* the response being processed, with what was done to its body
    aggregate,  \* what get_all_articles returned to the running call
    result,     \* what the running call returned to its caller
    server,     \* the response the server gave for each date of the running call
    prev,       \* the last Ok of get_all_articles under the configuration as it is
    made,       \* outcome of the last TDate::from_calendar_date call
    decoded     \* outcome of the last decoding of one news item

vars == <<range, ressort, regions, timeframe, url, pc, call, dates, content,
          inflight, log, resp, aggregate, result, server, prev, made, decoded>>

----------------------------------------------------------------------------
(* Bounds of the model.                                                    *)

\* DateRange::new is explored for ranges of at most MaxSpan days.
MaxSpan == 4
\* DateRange::from_dates is explored for vectors of at most MaxVec dates.
MaxVec == 2
\* Region sets of at most MaxRegions regions are explored.
MaxRegions == 2
\* A fetched timeframe resolves to at most MaxDates dates.
MaxDates == 3

----------------------------------------------------------------------------
(* Generic helpers.                                                        *)

Range(s) == {s[i] : i \in DOMAIN s}

NoDup(s) == \A i, j \in DOMAIN s : s[i] = s[j] => i = j

\* All iteration orders a HashSet holding exactly the elements of S can have.
IterOrders(S) ==
    {f \in [1..Cardinality(S) -> S] : \A i, j \in 1..Cardinality(S) : f[i] = f[j] => i = j}

\* Sequences over S of length at most n.
SeqsUpTo(S, n) == UNION {[1..k -> S] : k \in 0..n}

----------------------------------------------------------------------------
(* Calendar dates: time::Date as (year, ordinal day), TDate as             *)
(* (year, month, day).                                                     *)

\* time::Date::MAX is 9999-12-31 and Date::MIN is -9999-01-01.
MAX_YEAR == 9999
MIN_YEAR == 0 - 9999

is_leap_year(y) == (y % 4 = 0) /\ ((y % 100 # 0) \/ (y % 400 = 0))

days_in_year(y) == IF is_leap_year(y) THEN 366 ELSE 365

days_in_month(y, m) ==
    CASE m \in {1, 3, 5, 7, 8, 10, 12} -> 31
      [] m \in {4, 6, 9, 11} -> 30
      [] OTHER -> IF is_leap_year(y) THEN 29 ELSE 28

RECURSIVE DaysBeforeMonth(_, _)
DaysBeforeMonth(y, m) ==
    IF m = 1 THEN 0 ELSE DaysBeforeMonth(y, m - 1) + days_in_month(y, m - 1)

\* The day only checked from below.
DateFromCalendarDateAnyDay(y, m, d) ==
    IF y \in MIN_YEAR..MAX_YEAR /\ m \in 1..12 /\ d >= 1
    THEN [ok |-> TRUE, date |-> [year |-> y, ordinal |-> DaysBeforeMonth(y, m) + d]]
    ELSE [ok |-> FALSE, err |-> "DateParsingError"]

\* time::Date::from_calendar_date: Err(ComponentRange) unless the triple is a
\* real calendar date within MIN_YEAR..MAX_YEAR.
DateFromCalendarDate(y, m, d) ==
    IF y \in MIN_YEAR..MAX_YEAR /\ m \in 1..12 /\ d >= 1 /\ d <= days_in_month(y, m)
    THEN [ok |-> TRUE, date |-> [year |-> y, ordinal |-> DaysBeforeMonth(y, m) + d]]
    ELSE [ok |-> FALSE, err |-> "DateParsingError"]

DateMonth(dt) ==
    CHOOSE m \in 1..12 :
        /\ DaysBeforeMonth(dt.year, m) < dt.ordinal
        /\ dt.ordinal <= DaysBeforeMonth(dt.year, m) + days_in_month(dt.year, m)

DateDay(dt) == dt.ordinal - DaysBeforeMonth(dt.year, DateMonth(dt))

\* time::Date::next_day: None for Date::MAX.
NextDay(dt) ==
    IF dt.ordinal = days_in_year(dt.year)
    THEN IF dt.year = MAX_YEAR
         THEN [some |-> FALSE]
         ELSE [some |-> TRUE, date |-> [year |-> dt.year + 1, ordinal |-> 1]]
    ELSE [some |-> TRUE, date |-> [year |-> dt.year, ordinal |-> dt.ordinal + 1]]

\* s <= e on time::Date.
DateLe(s, e) == s.year < e.year \/ (s.year = e.year /\ s.ordinal <= e.ordinal)

\* TDate::from_time_date.
from_time_date(dt) == [year |-> dt.year, month |-> DateMonth(dt), day |-> DateDay(dt)]

\* TDate::from_calendar_date.
from_calendar_date(y, m, d) ==
    LET r == DateFromCalendarDate(y, m, d)
    IN  IF r.ok THEN [ok |-> TRUE, tdate |-> from_time_date(r.date)]
        ELSE [ok |-> FALSE, err |-> r.err]

TD(y, m, d) == [year |-> y, month |-> m, day |-> d]

\* The dates the model draws its inputs from: around the leap day of 2024, the
\* same days of the non-leap year 2023, a year end, and the last two days
\* time::Date can represent.
DatePool ==
    {TD(2024, 2, 28), TD(2024, 2, 29), TD(2024, 3, 1), TD(2024, 3, 2),
     TD(2023, 2, 27), TD(2023, 2, 28), TD(2023, 3, 1),
     TD(2023, 12, 30), TD(2023, 12, 31), TD(2024, 1, 1),
     TD(9999, 12, 30), TD(9999, 12, 31)}

\* The number of the day in the proleptic Gregorian calendar (days since
\* 0000-03-01), by the civil-calendar formula: the measure ranges are stated in.
DayNumber(t) ==
    LET y == IF t.month <= 2 THEN t.year - 1 ELSE t.year
        mp == (t.month + 9) % 12
    IN  365 * y + (y \div 4) - (y \div 100) + (y \div 400) + ((153 * mp + 2) \div 5) + t.day - 1

----------------------------------------------------------------------------
(* DateRange.                                                              *)

\* The while loop of DateRange::new from s to e, with the dates pushed so far:
\* the Vec it ends with, or a panic when next_day().unwrap() meets None.
RECURSIVE Walk(_, _, _)
Walk(s, e, acc) ==
    IF DateLe(s, e)
    THEN LET n == NextDay(s)
         IN  IF n.some THEN Walk(n.date, e, Append(acc, from_time_date(s)))
             ELSE [panic |-> TRUE, dates |-> Append(acc, from_time_date(s))]
    ELSE [panic |-> FALSE, dates |-> acc]

\* HashSet::from_iter(vec.into_iter()): the set of the vector's elements, in
\* any iteration order.
HashSetFromIter(vec) == IterOrders(Range(vec))

\* DateRange::new(start, end) up to the Vec of the walk: Err when an endpoint
\* is no calendar date, a panic when the walk steps past Date::MAX.
DateRangeNew(start, end) ==
    LET s == DateFromCalendarDate(start.year, start.month, start.day)
        e == DateFromCalendarDate(end.year, end.month, end.day)
    IN  IF ~s.ok THEN [status |-> "err", err |-> s.err]
        ELSE IF ~e.ok THEN [status |-> "err", err |-> e.err]
        ELSE LET w == Walk(s.date, e.date, <<>>)
             IN  IF w.panic THEN [status |-> "panic"]
                 ELSE [status |-> "ok", vec |-> w.dates]

----------------------------------------------------------------------------
(* Formatting.                                                             *)

Digit(n) == <<"0", "1", "2", "3", "4", "5", "6", "7", "8", "9">>[n + 1]

RECURSIVE NatToStr(_)
NatToStr(n) == IF n < 10 THEN <<Digit(n)>> ELSE NatToStr(n \div 10) \o <<Digit(n % 10)>>

\* format!("{}", n) of an integer.
IntToStr(n) == IF n < 0 THEN <<"-">> \o NatToStr(0 - n) ELSE NatToStr(n)

\* The number written without any fill.
NoPad(n) == IntToStr(n)

\* format!("{:0>2}", n): right-aligned in a field of two, filled with '0'.
Pad2(n) == LET t == IntToStr(n) IN IF Len(t) < 2 THEN <<"0">> \o t ELSE t

\* Rust's % on i32: the remainder has the sign of the dividend.
RustRem(a, b) == IF a >= 0 THEN a % b ELSE 0 - ((0 - a) % b)

\* impl Display for TDate.
TDateToString(t) == IntToStr(RustRem(t.year, 100)) \o Pad2(t.month) \o Pad2(t.day)

\* enum Region: the variants by their discriminants.
Region == 1..16
Bayern == 2
Berlin == 3
NordrheinWestfalen == 10

\* enum Ressort.
Ressort == {"None", "Inland", "Ausland", "Wirtschaft", "Sport", "Video", "Investigativ", "Wissen"}

\* impl Display for Ressort.
RessortToString(r) ==
    CASE r = "None" -> <<>>
      [] r = "Inland" -> <<"i", "n", "l", "a", "n", "d">>
      [] r = "Ausland" -> <<"a", "u", "s", "l", "a", "n", "d">>
      [] r = "Wirtschaft" -> <<"w", "i", "r", "t", "s", "c", "h", "a", "f", "t">>
      [] r = "Sport" -> <<"s", "p", "o", "r", "t">>
      [] r = "Video" -> <<"v", "i", "d", "e", "o">>
      [] r = "Investigativ" -> <<"i", "n", "v", "e", "s", "t", "i", "g", "a", "t", "i", "v">>
      [] r = "Wissen" -> <<"w", "i", "s", "s", "e", "n">>

BASE_URL == <<"h", "t", "t", "p", "s", ":", "/", "/", "w", "w", "w", ".", "t", "a", "g", "e", "s", "s", "c", "h", "a", "u", ".", "d", "e", "/", "a", "p", "i", "2", "u", "/", "n", "e", "w", "s">>

\* form_urlencoded's byte serialisation, on the characters a parameter value
\* can hold here (digits, lowercase letters, '-' and ','): all are kept but
\* the comma, which is percent-encoded.
RECURSIVE UrlEncode(_)
UrlEncode(s) ==
    IF s = <<>> THEN <<>>
    ELSE (IF Head(s) = "," THEN <<"%", "2", "C">> ELSE <<Head(s)>>) \o UrlEncode(Tail(s))

\* format!("{},", *region as u8): one step of the loop of prepare_url.
RegionItem(r) == IntToStr(r) \o <<",">>

\* Whether the URL text already has a query part.
HasQuery(u) == \E i \in DOMAIN u : u[i] = "?"

\* The value of the regions parameter: the loop of prepare_url over the set.
RECURSIVE RegionsValue(_)
RegionsValue(rs) ==
    IF rs = <<>> THEN <<>>
    ELSE RegionItem(Head(rs)) \o RegionsValue(Tail(rs))

\* url.query_pairs_mut().append_pair(name, value) on the URL text so far.
AppendPair(u, name, value) ==
    u \o (IF HasQuery(u) THEN <<"&">> ELSE <<"?">>) \o UrlEncode(name) \o <<"=">> \o UrlEncode(value)

\* The regions block of prepare_url.
WithRegions(u, rs) ==
    IF rs # <<>> THEN AppendPair(u, <<"r", "e", "g", "i", "o", "n", "s">>, RegionsValue(rs)) ELSE u

\* WithRessort gone wrong: the parameter is appended whatever the ressort.
WithRessortAlways(u, res) ==
    AppendPair(u, <<"r", "e", "s", "s", "o", "r", "t">>, RessortToString(res))

\* The ressort block of prepare_url.
WithRessort(u, res) ==
    IF res # "None" THEN AppendPair(u, <<"r", "e", "s", "s", "o", "r", "t">>, RessortToString(res)) ELSE u

\* TRequestBuilder::prepare_url(date) of a builder with ressort res and regions
\* rs.  Url::parse(BASE_URL) does not fail on this constant, so the result is
\* always Ok and only its text is kept.
prepare_url(res, rs, date) ==
    WithRessort(WithRegions(AppendPair(BASE_URL, <<"d", "a", "t", "e">>, TDateToString(date)), rs), res)

----------------------------------------------------------------------------
(* Content: decoding, sorting, projecting.                                 *)

\* A news item of a response body, by the fields the decoder looks at; an
\* absent title or date is the empty sequence, a present one a sequence of one
\* (a date that is not RFC 3339 counts as absent).  firstSentence, detailsweb,
\* streams and type say whether the field is there with the type its struct
\* asks for.  optional stands for tags, ressort, breakingNews and teaserImage
\* together: all "absent", those present "valid", or one present that its
\* Option<..> type cannot hold, "invalid" (a ressort the Deserialize impl of
\* Ressort does not know, a teaserImage without its type).
RawItem(title, date, firstSentence, detailsweb, streams, type, optional) ==
    [title |-> title, date |-> date, firstSentence |-> firstSentence,
     detailsweb |-> detailsweb, streams |-> streams, type |-> type,
     optional |-> optional]

\* #[derive(Deserialize)] struct TextArticle: its required fields are there
\* and no optional field fails.
DecodesAsTextArticle(j) ==
    /\ j.title # <<>> /\ j.firstSentence /\ j.date # <<>> /\ j.detailsweb /\ j.type
    /\ j.optional # "invalid"

\* #[derive(Deserialize)] struct Video: its required fields are there and no
\* optional field fails.
DecodesAsVideo(j) ==
    /\ j.title # <<>> /\ j.date # <<>> /\ j.streams /\ j.type
    /\ j.optional # "invalid"

\* The variants tried in the other order.
DecodeContentVideoFirst(j) ==
    IF DecodesAsVideo(j)
    THEN [ok |-> TRUE, val |-> [tag |-> "Video",
                                v |-> [title |-> j.title[1], date |-> j.date[1]]]]
    ELSE IF DecodesAsTextArticle(j)
    THEN [ok |-> TRUE, val |-> [tag |-> "TextArticle",
                                v |-> [title |-> j.title[1], date |-> j.date[1]]]]
    ELSE [ok |-> FALSE]

\* #[serde(untagged)] enum Content: the variants are tried in declaration order.
DecodeContent(j) ==
    IF DecodesAsTextArticle(j)
    THEN [ok |-> TRUE, val |-> [tag |-> "TextArticle",
                                v |-> [title |-> j.title[1], date |-> j.date[1]]]]
    ELSE IF DecodesAsVideo(j)
    THEN [ok |-> TRUE, val |-> [tag |-> "Video",
                                v |-> [title |-> j.title[1], date |-> j.date[1]]]]
    ELSE [ok |-> FALSE]

\* serde_json::from_str::<Articles>(text): every item of news must decode.
DecodeArticles(body) ==
    IF body.json /\ \A i \in DOMAIN body.news : DecodeContent(body.news[i]).ok
    THEN [ok |-> TRUE, news |-> [i \in DOMAIN body.news |-> DecodeContent(body.news[i]).val]]
    ELSE [ok |-> FALSE, err |-> [kind |-> "DeserializationError"]]

\* The comparator handed to sort_by.
Compare(element, next) ==
    IF element.v.date > next.v.date THEN "Greater"
    ELSE IF element.v.date < next.v.date THEN "Less"
    ELSE "Equal"

\* InsertSorted gone wrong: x goes in front of the elements it compares Equal
\* to, as an unstable sort may place it.
RECURSIVE InsertSortedUnstable(_, _)
InsertSortedUnstable(sorted, x) ==
    IF sorted = <<>> THEN <<x>>
    ELSE IF Compare(x, sorted[Len(sorted)]) # "Greater"
    THEN Append(InsertSortedUnstable(SubSeq(sorted, 1, Len(sorted) - 1), x),
                sorted[Len(sorted)])
    ELSE Append(sorted, x)

\* One insertion of a stable sort: x goes behind every element it does not
\* compare Less to.
RECURSIVE InsertSorted(_, _)
InsertSorted(sorted, x) ==
    IF sorted = <<>> THEN <<x>>
    ELSE IF Compare(x, sorted[Len(sorted)]) = "Less"
    THEN Append(InsertSorted(SubSeq(sorted, 1, Len(sorted) - 1), x), sorted[Len(sorted)])
    ELSE Append(sorted, x)

\* content.sort_by(...): slice::sort_by is a stable sort, and every stable sort
\* gives the result of inserting the elements one by one.
RECURSIVE SortBy(_)
SortBy(c) ==
    IF c = <<>> THEN <<>>
    ELSE InsertSorted(SortBy(SubSeq(c, 1, Len(c) - 1)), c[Len(c)])

\* Content::is_text and Content::is_video.
is_text(c) == c.tag = "TextArticle"
is_video(c) == c.tag = "Video"

\* Content::to_text and Content::to_video.
to_text(c) ==
    IF c.tag = "TextArticle" THEN [ok |-> TRUE, val |-> c.v]
    ELSE [ok |-> FALSE, err |-> [kind |-> "ConversionError"]]
to_video(c) ==
    IF c.tag = "Video" THEN [ok |-> TRUE, val |-> c.v]
    ELSE [ok |-> FALSE, err |-> [kind |-> "ConversionError"]]

\* RetainText gone wrong: the predicate of the other method, is_video.
RECURSIVE RetainTextByIsVideo(_)
RetainTextByIsVideo(a) ==
    IF a = <<>> THEN <<>>
    ELSE (IF is_video(Head(a)) THEN <<Head(a)>> ELSE <<>>) \o RetainTextByIsVideo(Tail(a))

\* A retain that drops nothing.
RetainAll(a) == a

\* a.retain(|x| x.is_text()) and a.retain(|x| x.is_video()).
RECURSIVE RetainText(_)
RetainText(a) ==
    IF a = <<>> THEN <<>>
    ELSE (IF is_text(Head(a)) THEN <<Head(a)>> ELSE <<>>) \o RetainText(Tail(a))
RECURSIVE RetainVideo(_)
RetainVideo(a) ==
    IF a = <<>> THEN <<>>
    ELSE (IF is_video(Head(a)) THEN <<Head(a)>> ELSE <<>>) \o RetainVideo(Tail(a))

\* The loop pushing content.to_text().unwrap(), resp. to_video().unwrap(): the
\* call panics when an unwrap meets Err.
UnwrapAll(rs) ==
    IF \E i \in DOMAIN rs : ~rs[i].ok THEN [panic |-> TRUE, ok |-> FALSE]
    ELSE [panic |-> FALSE, ok |-> TRUE, val |-> [i \in DOMAIN rs |-> rs[i].val]]

\* What get_text_articles makes of the Ok value of get_all_articles.
TextOf(a) == LET kept == RetainText(a) IN UnwrapAll([i \in DOMAIN kept |-> to_text(kept[i])])

\* What get_video_articles makes of the Ok value of get_all_articles.
VideoOf(a) == LET kept == RetainVideo(a) IN UnwrapAll([i \in DOMAIN kept |-> to_video(kept[i])])

----------------------------------------------------------------------------
(* The server and its responses.                                           *)

\* Error values: the variant of enum Error and, for InvalidResponse, its u16.
Err(kind, code) == [status |-> "err", err |-> [kind |-> kind, code |-> code]]
Ok(val) == [status |-> "ok", val |-> val]
None == [status |-> "none"]
Panic == [status |-> "panic"]

TextItem(title, date) == RawItem(<<title>>, <<date>>, TRUE, TRUE, FALSE, TRUE, "valid")
VideoItem(title, date) == RawItem(<<title>>, <<date>>, FALSE, FALSE, TRUE, TRUE, "valid")
\* An item with neither detailsweb nor streams, and no date.
BrokenItem == RawItem(<<"x">>, <<>>, FALSE, FALSE, FALSE, TRUE, "absent")

\* A response: whether one arrived at all, its status, whether its body can be
\* read, and the body.
Response(transport, status, readable, json, news) ==
    [transport |-> transport, status |-> status, readable |-> readable,
     body |-> [json |-> json, news |-> news]]

\* The responses the model's server chooses from: two lists of articles whose
\* publish timestamps (1 and 2) are out of order and tie across the lists, and
\* one response for each way a fetch fails.
ResponsePool ==
    {Response(TRUE, 200, TRUE, TRUE,
              <<TextItem("t1", 2), VideoItem("v1", 1), VideoItem("v3", 2)>>),
     Response(TRUE, 200, TRUE, TRUE, <<VideoItem("v2", 1), TextItem("t2", 2)>>),
     Response(FALSE, 0, FALSE, FALSE, <<>>),
     Response(TRUE, 404, TRUE, TRUE, <<TextItem("t1", 2)>>),
     Response(TRUE, 204, TRUE, TRUE, <<>>),
     Response(TRUE, 200, FALSE, FALSE, <<>>),
     Response(TRUE, 200, TRUE, TRUE, <<TextItem("t1", 2), BrokenItem>>)}

\* The dates the fetching model asks the server for.
FetchDates == {TD(2024, 2, 28), TD(2024, 2, 29), TD(2024, 3, 1)}

\* The builder settings the fetching model explores.
FetchRessorts == {"None", "Sport"}
FetchRegionPool == {Berlin}

\* The regions and dates the URL model explores.
RegionPool == {Bayern, Berlin, NordrheinWestfalen}
UrlDates == {TD(2024, 2, 29), TD(2023, 12, 31)}

NoServer == [d \in {} |-> None]

\* The server's answer r for a date is noted.
Remember(date, r) == [d \in DOMAIN server \cup {date} |-> IF d = date THEN r ELSE server[d]]

----------------------------------------------------------------------------
(* The state after construction.                                           *)

\* TRequestBuilder::new(), with no call running and nothing built yet.
Init ==
    /\ range = None
    /\ ressort = "None"
    /\ regions = <<>>
    /\ timeframe = [kind |-> "Now"]
    /\ url = None
    /\ pc = "idle"
    /\ call = [kind |-> "none", resolved |-> <<>>]
    /\ dates = <<>>
    /\ content = <<>>
    /\ inflight = {}
    /\ log = <<>>
    /\ resp = None
    /\ aggregate = None
    /\ result = None
    /\ server = NoServer
    /\ prev = None
    /\ made = None
    /\ decoded = None

builderVars == <<ressort, regions, timeframe>>
callVars == <<pc, call, dates, content, inflight, log, resp, aggregate, result>>
envVars == <<server, prev>>

----------------------------------------------------------------------------
(* DateRange construction as operations.                                   *)

\* DateRange::new(start, end), and the HashSet it returns.
RangeNew(start, end) ==
    LET r == DateRangeNew(start, end)
    IN  /\ IF r.status = "ok"
           THEN \E order \in HashSetFromIter(r.vec) :
                    range' = [status |-> "ok", op |-> "new", dates |-> order,
                              start |-> start, end |-> end]
           ELSE range' = [status |-> r.status, op |-> "new", dates |-> <<>>,
                          start |-> start, end |-> end]
        /\ UNCHANGED <<made, decoded, builderVars, url, callVars, envVars>>

\* DateRange::from_dates(dates).
RangeFromDates(vec) ==
    /\ \E order \in HashSetFromIter(vec) :
           range' = [status |-> "ok", op |-> "from_dates", dates |-> order,
                     start |-> vec, end |-> vec]
    /\ UNCHANGED <<made, decoded, builderVars, url, callVars, envVars>>

----------------------------------------------------------------------------
(* The builder's setters and prepare_url.                                  *)

\* The match on self.timeframe for the variants that hold their dates.
ResolveDates(tf) ==
    IF tf.kind = "Date" THEN <<tf.date>> ELSE tf.dates

\* The remembered result, when it was made for ressort res, the regions of S
\* and the dates of D; forgotten otherwise.
KeepPrev(res, S, D) ==
    IF prev.status = "ok" /\ prev.ressort = res /\ prev.regions = S /\ prev.dates = D
    THEN prev ELSE None

\* The dates a timeframe is known to resolve to (Now: not known).
DatesOf(tf) == IF tf.kind = "Now" THEN {} ELSE Range(ResolveDates(tf))

\* TRequestBuilder::ressort(res).
SetRessort(res) ==
    /\ pc = "idle"
    /\ ressort' = res
    /\ prev' = KeepPrev(res, Range(regions), DatesOf(timeframe))
    /\ UNCHANGED <<made, decoded, range, regions, timeframe, url, callVars, server>>

\* TRequestBuilder::regions(reg), reg a HashSet holding the regions of S.
SetRegions(S) ==
    /\ pc = "idle"
    /\ \E order \in IterOrders(S) : regions' = order
    /\ prev' = KeepPrev(ressort, S, DatesOf(timeframe))
    /\ UNCHANGED <<made, decoded, range, ressort, timeframe, url, callVars, server>>

\* TRequestBuilder::timeframe(Timeframe::Now).
SetTimeframeNow ==
    /\ pc = "idle"
    /\ timeframe' = [kind |-> "Now"]
    /\ prev' = None
    /\ UNCHANGED <<made, decoded, range, ressort, regions, url, callVars, server>>

\* TRequestBuilder::timeframe(Timeframe::Date(date)).
SetTimeframeDate(date) ==
    /\ pc = "idle"
    /\ timeframe' = [kind |-> "Date", date |-> date]
    /\ prev' = KeepPrev(ressort, Range(regions), {date})
    /\ UNCHANGED <<made, decoded, range, ressort, regions, url, callVars, server>>

\* TRequestBuilder::timeframe(Timeframe::DateRange(DateRange::new(start, end)?)).
SetTimeframeRange(start, end) ==
    /\ pc = "idle"
    /\ LET r == DateRangeNew(start, end)
       IN  /\ r.status = "ok"
           /\ Len(r.vec) <= MaxDates
           /\ \E order \in HashSetFromIter(r.vec) :
                  timeframe' = [kind |-> "DateRange", dates |-> order]
           /\ prev' = KeepPrev(ressort, Range(regions), Range(r.vec))
    /\ UNCHANGED <<made, decoded, range, ressort, regions, url, callVars, server>>

\* TRequestBuilder::timeframe(Timeframe::DateRange(DateRange::from_dates(vec))).
SetTimeframeDates(vec) ==
    /\ pc = "idle"
    /\ \E order \in HashSetFromIter(vec) :
           timeframe' = [kind |-> "DateRange", dates |-> order]
    /\ prev' = KeepPrev(ressort, Range(regions), Range(vec))
    /\ UNCHANGED <<made, decoded, range, ressort, regions, url, callVars, server>>

\* A call of prepare_url(date) on the builder as it is; before holds the text
\* the call before this one returned, when that call had the same date,
\* ressort and set of regions.
PrepareUrl(date) ==
    /\ pc = "idle"
    /\ url' = [status |-> "ok", date |-> date, ressort |-> ressort, regions |-> regions,
               text |-> prepare_url(ressort, regions, date),
               before |-> IF /\ url.status = "ok"
                             /\ url.date = date
                             /\ url.ressort = ressort
                             /\ Range(url.regions) = Range(regions)
                          THEN <<url.text>> ELSE <<>>]
    /\ UNCHANGED <<made, decoded, range, builderVars, callVars, envVars>>

----------------------------------------------------------------------------
(* get_all_articles, get_text_articles and get_video_articles.  The async  *)
(* methods of lib.rs and the blocking ones of blocking.rs are the same     *)
(* code line by line; a step ends where the async code awaits.             *)

\* StatusIsOk gone wrong: every 2xx status counts as success.
StatusIsSuccess(status) == status \in 200..299

\* The match on response.status(): only StatusCode::OK has its body read.
StatusIsOk(status) == status = 200

\* LoopStep gone wrong: a failed fetch is skipped and the loop goes on.
LoopStepSkipsFailure(c, out) ==
    IF out.status = "ok"
    THEN [continue |-> TRUE, content |-> c \o out.val]
    ELSE [continue |-> TRUE, content |-> c]

\* What the for loop does with the value fetch returned: `?` returns its Err
\* from get_all_articles, an Ok has its news appended to content.
LoopStep(c, out) ==
    IF out.status = "ok"
    THEN [continue |-> TRUE, content |-> c \o out.val]
    ELSE [continue |-> FALSE, content |-> c, ret |-> out]

\* AfterIssue gone wrong: the request is not awaited and the loop goes on.
AfterIssueNoAwait == "loop"

\* Where the call is once the request is sent: awaiting reqwest::get.
AfterIssue == "awaitGet"

\* get_text_articles and get_video_articles on what get_all_articles returned.
Project(kind, agg) ==
    IF agg.status # "ok" \/ kind = "all" THEN agg
    ELSE LET r == IF kind = "text" THEN TextOf(agg.val) ELSE VideoOf(agg.val)
         IN  IF r.panic THEN Panic ELSE Ok(r.val)

\* The entry of a call up to the for loop, the timeframe holding its dates.
StartCall(kind) ==
    /\ pc = "idle"
    /\ timeframe.kind # "Now"
    /\ pc' = "loop"
    /\ call' = [kind |-> kind, resolved |-> ResolveDates(timeframe)]
    /\ dates' = ResolveDates(timeframe)
    /\ content' = <<>>
    /\ log' = <<>>
    /\ resp' = None
    /\ aggregate' = None
    /\ result' = None
    /\ server' = NoServer
    /\ UNCHANGED <<made, decoded, range, builderVars, url, inflight, prev>>

\* The entry of a call for Timeframe::Now when now_local() gives the date.
StartCallNow(kind, today) ==
    /\ pc = "idle"
    /\ timeframe.kind = "Now"
    /\ pc' = "loop"
    /\ call' = [kind |-> kind, resolved |-> <<today>>]
    /\ dates' = <<today>>
    /\ content' = <<>>
    /\ log' = <<>>
    /\ resp' = None
    /\ aggregate' = None
    /\ result' = None
    /\ server' = NoServer
    /\ UNCHANGED <<made, decoded, range, builderVars, url, inflight, prev>>

\* The entry of a call for Timeframe::Now when now_local() fails.
StartCallNoClock(kind) ==
    /\ pc = "idle"
    /\ timeframe.kind = "Now"
    /\ pc' = "done"
    /\ call' = [kind |-> kind, resolved |-> <<>>]
    /\ dates' = <<>>
    /\ content' = <<>>
    /\ log' = <<>>
    /\ resp' = None
    /\ aggregate' = Err("DateError", 0)
    /\ result' = Project(kind, Err("DateError", 0))
    /\ server' = NoServer
    /\ UNCHANGED <<made, decoded, range, builderVars, url, inflight, prev>>

\* The loop takes its next date; fetch builds the URL and sends the request.
Issue ==
    /\ pc = "loop"
    /\ dates # <<>>
    /\ LET req == [n |-> Len(log) + 1, date |-> Head(dates),
                   url |-> prepare_url(ressort, regions, Head(dates))]
       IN  /\ inflight' = inflight \cup {req}
           /\ log' = Append(log, [date |-> req.date, url |-> req.url, out |-> None])
    /\ dates' = Tail(dates)
    /\ pc' = AfterIssue
    /\ UNCHANGED <<made, decoded, range, builderVars, url, call, content, resp, aggregate, result, envVars>>

\* fetch returns out to the loop of get_all_articles: the request req is over.
FetchReturns(req, out) ==
    LET step == LoopStep(content, out)
    IN  /\ inflight' = inflight \ {req}
        /\ log' = [log EXCEPT ![req.n].out = out]
        /\ content' = step.content
        /\ IF step.continue
           THEN pc' = "loop" /\ UNCHANGED <<made, decoded, aggregate, result>>
           ELSE /\ pc' = "done"
                /\ aggregate' = step.ret
                /\ result' = Project(call.kind, step.ret)

\* reqwest::get(url).await completes: a transport error, or a response whose
\* status is matched.
Respond ==
    /\ pc = "awaitGet"
    /\ \E req \in inflight : \E r \in ResponsePool :
        /\ server' = Remember(req.date, r)
        /\ IF ~r.transport
           THEN /\ resp' = [status |-> "failed", date |-> req.date, code |-> 0,
                            bodyRead |-> FALSE, parsed |-> FALSE]
                /\ FetchReturns(req, Err("BadRequest", 0))
                /\ UNCHANGED <<made, decoded, dates, call>>
           ELSE IF StatusIsOk(r.status)
           THEN /\ resp' = [status |-> "open", date |-> req.date, code |-> r.status,
                            bodyRead |-> FALSE, parsed |-> FALSE]
                /\ pc' = "awaitText"
                /\ UNCHANGED <<made, decoded, dates, call, content, inflight, log, aggregate, result>>
           ELSE /\ resp' = [status |-> "closed", date |-> req.date, code |-> r.status,
                            bodyRead |-> FALSE, parsed |-> FALSE]
                /\ FetchReturns(req, Err("InvalidResponse", r.status))
                /\ UNCHANGED <<made, decoded, dates, call>>
    /\ UNCHANGED <<made, decoded, range, builderVars, url, prev>>

\* response.text().await completes, and the text is deserialized.
ReadBody ==
    /\ pc = "awaitText"
    /\ \E req \in inflight :
        LET r == server[req.date]
        IN  IF ~r.readable
            THEN /\ resp' = [resp EXCEPT !.status = "closed", !.bodyRead = TRUE]
                 /\ FetchReturns(req, Err("ParsingError", 0))
            ELSE LET a == DecodeArticles(r.body)
                 IN  /\ resp' = [resp EXCEPT !.status = "closed", !.bodyRead = TRUE,
                                             !.parsed = TRUE]
                     /\ FetchReturns(req, IF a.ok THEN Ok(a.news)
                                          ELSE Err("DeserializationError", 0))
    /\ UNCHANGED <<made, decoded, range, builderVars, url, dates, call, envVars>>

\* The loop is over: content is sorted and returned, and projected for the
\* text and video methods.  content keeps the concatenation as it arrived.
Finish ==
    /\ pc = "loop"
    /\ dates = <<>>
    /\ pc' = "done"
    /\ aggregate' = Ok(SortBy(content))
    /\ result' = Project(call.kind, Ok(SortBy(content)))
    /\ UNCHANGED <<made, decoded, range, builderVars, url, call, dates, content, inflight, log, resp, envVars>>

\* The caller takes the result; an Ok of get_all_articles is remembered with
\* the configuration and the server's answers it was made under.
Return ==
    /\ pc = "done"
    /\ pc' = "idle"
    /\ prev' = IF call.kind = "all" /\ result.status = "ok"
               THEN [status |-> "ok", ressort |-> ressort, regions |-> Range(regions),
                     dates |-> Range(call.resolved), server |-> server,
                     val |-> result.val]
               ELSE prev
    /\ call' = [kind |-> "none", resolved |-> <<>>]
    /\ dates' = <<>>
    /\ content' = <<>>
    /\ inflight' = {}
    /\ log' = <<>>
    /\ resp' = None
    /\ aggregate' = None
    /\ result' = None
    /\ server' = NoServer
    /\ UNCHANGED <<made, decoded, range, builderVars, url>>

----------------------------------------------------------------------------
(* Specifications.                                                         *)

Next ==
    \/ \E res \in FetchRessorts : SetRessort(res)
    \/ \E S \in SUBSET FetchRegionPool : SetRegions(S)
    \/ SetTimeframeNow
    \/ \E d \in FetchDates : SetTimeframeDate(d)
    \/ \E s, e \in FetchDates : SetTimeframeRange(s, e)
    \/ \E vec \in SeqsUpTo(FetchDates, MaxDates) : SetTimeframeDates(vec)
    \/ \E kind \in {"all", "text", "video"} : StartCall(kind)
    \/ \E kind \in {"all", "text", "video"}, today \in FetchDates : StartCallNow(kind, today)
    \/ \E kind \in {"all", "text", "video"} : StartCallNoClock(kind)
    \/ Issue
    \/ Respond
    \/ ReadBody
    \/ Finish
    \/ Return

\* A session of one builder: configured, then queried, again and again.
Spec == Init /\ [][Next]_vars

NextRange ==
    \/ \E start, end \in DatePool :
           DayNumber(end) - DayNumber(start) < MaxSpan /\ RangeNew(start, end)
    \/ \E vec \in SeqsUpTo(DatePool, MaxVec) : RangeFromDates(vec)

\* DateRange values being constructed.
SpecRange == Init /\ [][NextRange]_vars

NextUrl ==
    \/ \E res \in Ressort : SetRessort(res)
    \/ \E S \in SUBSET RegionPool : Cardinality(S) <= MaxRegions /\ SetRegions(S)
    \/ \E d \in UrlDates : PrepareUrl(d)

\* A builder being configured and asked for its URLs.
SpecUrl == Init /\ [][NextUrl]_vars

----------------------------------------------------------------------------
(* Dates being constructed from raw (year, month, day) triples.            *)

\* The years, months and days handed to from_calendar_date.  The month is a
\* value of enum Month, so it is always one of the twelve; the year is any
\* i32 and the day any u8, valid or not.
YearPool == {0 - 5, 1924, 2005, 2023, 2024, MAX_YEAR, MAX_YEAR + 1}
MonthPool == {2, 4, 12}
DayPool == {0, 1, 29, 30, 31, 32}
TriplePool == (YearPool \X MonthPool \X DayPool) \cup {<<2005, 3, 7>>}

\* Two dates close enough to be the ends of a range the model explores, or
\* on the same day of the year.
Related(a, b) ==
    \/ (DayNumber(b) - DayNumber(a) < MaxSpan /\ DayNumber(a) - DayNumber(b) < MaxSpan)
    \/ (a.month = b.month /\ a.day = b.day)

\* TDate::from_calendar_date(year, month, day) and, when it returned Ok, the
\* to_string() of the date.  before is the TDate made by the call before this
\* one, with its text, remembered when the two dates are related.
FromCalendarDate(year, month, day) ==
    LET r == from_calendar_date(year, month, day) IN
    /\ made' = IF r.ok
               THEN [status |-> "ok", year |-> year, month |-> month, day |-> day,
                     tdate |-> r.tdate, text |-> TDateToString(r.tdate),
                     before |-> IF made.status = "ok" /\ Related(made.tdate, r.tdate)
                                THEN <<[tdate |-> made.tdate, text |-> made.text]>>
                                ELSE <<>>]
               ELSE [status |-> "err", year |-> year, month |-> month, day |-> day,
                     err |-> r.err, before |-> <<>>]
    /\ range' = None
    /\ UNCHANGED <<decoded, builderVars, url, callVars, envVars>>

\* DateRange::new from the two dates made last.
RangeOfMade ==
    /\ made.status = "ok"
    /\ made.before # <<>>
    /\ DayNumber(made.tdate) - DayNumber(made.before[1].tdate) < MaxSpan
    /\ RangeNew(made.before[1].tdate, made.tdate)

NextDate ==
    \/ \E t \in TriplePool : FromCalendarDate(t[1], t[2], t[3])
    \/ RangeOfMade

\* TDate values being constructed, formatted and put into ranges.
SpecDate == Init /\ [][NextDate]_vars

----------------------------------------------------------------------------
(* News items being decoded one at a time.                                 *)

\* The items handed to the decoder: every combination of the fields there or
\* not there.
ItemPool ==
    {RawItem(title, date, firstSentence, detailsweb, streams, type, optional) :
        title \in {<<>>, <<"t1">>}, date \in {<<>>, <<1>>},
        firstSentence \in BOOLEAN, detailsweb \in BOOLEAN, streams \in BOOLEAN,
        type \in BOOLEAN, optional \in {"absent", "valid", "invalid"}}

\* Deserializing one Content from item j.
DecodeItem(j) ==
    LET r == DecodeContent(j) IN
    /\ decoded' = IF r.ok THEN [status |-> "ok", item |-> j, val |-> r.val]
                  ELSE [status |-> "err", item |-> j,
                        err |-> [kind |-> "DeserializationError"]]
    /\ UNCHANGED <<made, range, builderVars, url, callVars, envVars>>

NextDecode == \E j \in ItemPool : DecodeItem(j)

\* The decoder of Content being applied to items.
SpecDecode == Init /\ [][NextDecode]_vars

----------------------------------------------------------------------------
(* Reading a URL text back, for the properties below.                      *)

ParamDate == <<"d", "a", "t", "e">>
ParamRegions == <<"r", "e", "g", "i", "o", "n", "s">>
ParamRessort == <<"r", "e", "s", "s", "o", "r", "t">>

\* The first index of character c in text s, 0 when there is none.
IndexOf(s, c) ==
    IF \E i \in DOMAIN s : s[i] = c
    THEN CHOOSE i \in DOMAIN s : s[i] = c /\ \A j \in 1..(i - 1) : s[j] # c
    ELSE 0

\* The pieces of text s between the occurrences of character c.
RECURSIVE SplitOn(_, _)
SplitOn(s, c) ==
    LET i == IndexOf(s, c)
    IN  IF i = 0 THEN <<s>>
        ELSE <<SubSeq(s, 1, i - 1)>> \o SplitOn(SubSeq(s, i + 1, Len(s)), c)

\* Percent-decoding of the one escape that occurs, %2C.
RECURSIVE UrlDecode(_)
UrlDecode(s) ==
    IF s = <<>> THEN <<>>
    ELSE IF Len(s) >= 3 /\ SubSeq(s, 1, 3) = <<"%", "2", "C">>
    THEN <<",">> \o UrlDecode(SubSeq(s, 4, Len(s)))
    ELSE <<Head(s)>> \o UrlDecode(Tail(s))

\* The query parameters of URL text u, in order, as name and decoded value.
QueryPairs(u) ==
    LET q == IndexOf(u, "?")
        parts == IF q = 0 THEN <<>> ELSE SplitOn(SubSeq(u, q + 1, Len(u)), "&")
    IN  [i \in DOMAIN parts |->
            LET e == IndexOf(parts[i], "=")
            IN  [name |-> SubSeq(parts[i], 1, e - 1),
                 value |-> UrlDecode(SubSeq(parts[i], e + 1, Len(parts[i])))]]

\* The values URL text u gives parameter name.
ParamValues(u, name) ==
    {QueryPairs(u)[i].value : i \in {j \in DOMAIN QueryPairs(u) : QueryPairs(u)[j].name = name}}

HasParam(u, name) == ParamValues(u, name) # {}

\* The region codes of sequence rs joined by commas.
RECURSIVE CommaJoined(_)
CommaJoined(rs) ==
    IF rs = <<>> THEN <<>>
    ELSE IF Len(rs) = 1 THEN IntToStr(rs[1])
    ELSE IntToStr(rs[1]) \o <<",">> \o CommaJoined(Tail(rs))

----------------------------------------------------------------------------
(* Properties of the fetch loop.                                           *)

\* The k-th smallest element of a set of numbers.
Nth(P, k) == CHOOSE i \in P : Cardinality({j \in P : j < i}) = k - 1

\* res holds exactly the payloads of the items of agg tagged tag, in agg's order.
IsProjection(res, agg, tag) ==
    LET P == {i \in DOMAIN agg : agg[i].tag = tag}
    IN  /\ Len(res) = Cardinality(P)
        /\ \A k \in 1..Len(res) : res[k] = agg[Nth(P, k)].v

\* The items of c published at time t, in c's order.
PublishedAt(c, t) == LET At(x) == x.v.date = t IN SelectSeq(c, At)

\* C1: once the fetch of a date has failed, the call is over and has returned
\* Err carrying exactly that fetch's error, and no content list, whatever was
\* fetched before; the failed fetch is the call's last.
C1_FailedFetchFailsCall ==
    \A i \in DOMAIN log :
        log[i].out.status = "err" =>
            /\ pc = "done"
            /\ i = Len(log)
            /\ aggregate = log[i].out
            /\ result = log[i].out
            /\ result.status # "ok"

\* C1 witness: a call over three dates whose first fetch brought articles
\* and whose second fetch failed.
C1_Witness ==
    /\ pc = "done"
    /\ Len(call.resolved) = 3
    /\ Len(log) = 2
    /\ log[1].out.status = "ok"
    /\ content # <<>>
    /\ log[2].out.status = "err"
    /\ result.status = "err"

\* C3: at most one request is in flight at any time, every request but the
\* last issued has been answered, and a call that ends Ok has issued exactly
\* one request per distinct date of its timeframe (one for Now, one for Date).
C3_OneSequentialGetPerDate ==
    /\ Cardinality(inflight) <= 1
    /\ \A i \in 1..(Len(log) - 1) : log[i].out.status # "none"
    /\ (pc = "done" /\ aggregate.status = "ok") =>
          /\ NoDup(log)
          /\ inflight = {}
          /\ CASE timeframe.kind = "Now" -> Len(log) = 1
               [] timeframe.kind = "Date" ->
                      Len(log) = 1 /\ log[1].date = timeframe.date
               [] timeframe.kind = "DateRange" ->
                      /\ Len(log) = Cardinality(Range(timeframe.dates))
                      /\ {log[i].date : i \in DOMAIN log} = Range(timeframe.dates)

\* C3 witness: a call over a range of three dates that ended Ok.
C3_Witness ==
    /\ pc = "done"
    /\ aggregate.status = "ok"
    /\ timeframe.kind = "DateRange"
    /\ Cardinality(Range(timeframe.dates)) = 3
    /\ Len(log) = 3

\* C4: the list get_all_articles returns is in ascending order of publish
\* timestamp, and the items of each timestamp are those of the concatenated
\* responses in the order they have there.
C4_StableAscending ==
    (pc = "done" /\ aggregate.status = "ok") =>
        /\ \A i, j \in DOMAIN aggregate.val :
               i < j => aggregate.val[i].v.date <= aggregate.val[j].v.date
        /\ Len(aggregate.val) = Len(content)
        /\ \A t \in {content[i].v.date : i \in DOMAIN content} :
               PublishedAt(aggregate.val, t) = PublishedAt(content, t)

\* C4 witness: a returned list whose concatenation was out of order and held
\* items of equal timestamp from two different responses.
C4_Witness ==
    /\ pc = "done"
    /\ aggregate.status = "ok"
    /\ Len(log) >= 2
    /\ aggregate.val # content
    /\ \E i, j \in DOMAIN content :
           /\ i < j
           /\ content[i].v.date = content[j].v.date
           /\ i <= Len(log[1].out.val)
           /\ j > Len(log[1].out.val)

\* C5: two calls of get_all_articles under the same ressort, regions and
\* dates, the server answering each date the same both times, return the
\* same sequence of items.
C5_Reproducible ==
    ( /\ pc = "done"
      /\ call.kind = "all"
      /\ result.status = "ok"
      /\ prev.status = "ok"
      /\ prev.ressort = ressort
      /\ prev.regions = Range(regions)
      /\ prev.dates = Range(call.resolved)
      /\ prev.server = server )
    => result.val = prev.val

\* C6: get_text_articles returns exactly the TextArticle items of the list
\* get_all_articles gave it, and get_video_articles exactly its Video items,
\* each in the order of that list, none dropped, repeated or added.
C6_ProjectionExact ==
    (pc = "done" /\ aggregate.status = "ok" /\ call.kind \in {"text", "video"}) =>
        /\ result.status = "ok"
        /\ call.kind = "text" => IsProjection(result.val, aggregate.val, "TextArticle")
        /\ call.kind = "video" => IsProjection(result.val, aggregate.val, "Video")

\* C6 witness: get_text_articles on a list of two text and three video items.
C6_Witness ==
    /\ pc = "done"
    /\ call.kind = "text"
    /\ aggregate.status = "ok"
    /\ Cardinality({i \in DOMAIN aggregate.val : is_text(aggregate.val[i])}) = 2
    /\ Cardinality({i \in DOMAIN aggregate.val : is_video(aggregate.val[i])}) = 3
    /\ result.status = "ok"
    /\ Len(result.val) = 2

\* C7: a response whose status is not 200 ends its fetch with
\* InvalidResponse carrying that status, its body neither read nor parsed.
C7_Non200IsInvalidResponse ==
    (resp.status \in {"open", "closed"} /\ resp.code # 200) =>
        /\ resp.status = "closed"
        /\ ~resp.bodyRead
        /\ ~resp.parsed
        /\ pc = "done"
        /\ log[Len(log)].out = Err("InvalidResponse", resp.code)
        /\ aggregate = Err("InvalidResponse", resp.code)

\* C7 witness: a fetch answered 404.
C7_Witness ==
    /\ resp.status = "closed"
    /\ resp.code = 404
    /\ result = Err("InvalidResponse", 404)

\* C15: the filtering methods never panic: whatever get_all_articles
\* returned, every to_text() that get_text_articles unwraps and every
\* to_video() that get_video_articles unwraps is Ok, so no call ends in a
\* panic and no result is ConversionError.
C15_UnwrapNeverFails ==
    /\ result.status # "panic"
    /\ result.status = "err" => result.err.kind # "ConversionError"
    /\ (pc = "done" /\ aggregate.status = "ok" /\ call.kind = "text") =>
           \A i \in DOMAIN RetainText(aggregate.val) :
               to_text(RetainText(aggregate.val)[i]).ok
    /\ (pc = "done" /\ aggregate.status = "ok" /\ call.kind = "video") =>
           \A i \in DOMAIN RetainVideo(aggregate.val) :
               to_video(RetainVideo(aggregate.val)[i]).ok

\* C15 witness: get_video_articles has returned Ok from a list that held text
\* items among its videos.
C15_Witness ==
    /\ pc = "done"
    /\ call.kind = "video"
    /\ aggregate.status = "ok"
    /\ \E i, j \in DOMAIN aggregate.val :
           is_text(aggregate.val[i]) /\ is_video(aggregate.val[j]) /\ i < j
    /\ result.status = "ok"
    /\ result.val # <<>>

\* C16: once a fetch of the running call has failed, no step issues another
\* request: the log of requests does not grow and nothing is in flight, until
\* the caller has taken the result and the log starts anew.
C16_NoRequestAfterFailure ==
    [][(\E i \in DOMAIN log : log[i].out.status = "err") =>
           /\ inflight' = {}
           /\ (log' = log \/ (pc = "done" /\ pc' = "idle" /\ log' = <<>>))]_vars

\* C16 witness: the first fetch of a call over three dates has failed and the
\* call is over with the two other dates never requested.
C16_Witness ==
    /\ pc = "done"
    /\ Len(call.resolved) = 3
    /\ Len(log) = 1
    /\ log[1].out.status = "err"
    /\ Len(dates) = 2
    /\ inflight = {}

----------------------------------------------------------------------------
(* Properties of DateRange and of prepare_url.                             *)

\* C2: DateRange::new(start, end) returns Ok holding, in ascending calendar
\* order, exactly the end - start + 1 days from start to end, and no date
\* when end is before start.
C2_RangeAscendingExact ==
    (range.status # "none" /\ range.op = "new") =>
        /\ range.status = "ok"
        /\ Len(range.dates) =
               IF DayNumber(range.end) >= DayNumber(range.start)
               THEN DayNumber(range.end) - DayNumber(range.start) + 1 ELSE 0
        /\ \A i \in DOMAIN range.dates :
               /\ DayNumber(range.dates[i]) = DayNumber(range.start) + i - 1
               /\ from_calendar_date(range.dates[i].year, range.dates[i].month,
                                     range.dates[i].day).ok

\* C17: for all valid start and end dates, the largest date of the calendar
\* included, DateRange::new returns Ok: the walk ends without
\* next_day().unwrap() meeting a date that has no successor.
C17_WalkNeverPanics ==
    (range.status # "none" /\ range.op = "new") =>
        /\ range.status # "panic"
        /\ range.status = "ok"

\* C8: the URL always has a date parameter, a regions parameter exactly when
\* the region set is not empty, and a ressort parameter exactly when the
\* ressort is not None.
C8_ParametersPresent ==
    url.status = "ok" =>
        /\ HasParam(url.text, ParamDate)
        /\ HasParam(url.text, ParamRegions) <=> (url.regions # <<>>)
        /\ HasParam(url.text, ParamRessort) <=> (url.ressort # "None")
        /\ Len(QueryPairs(url.text)) =
               1 + (IF url.regions # <<>> THEN 1 ELSE 0) + (IF url.ressort # "None" THEN 1 ELSE 0)

\* C8 witness: a URL built with no regions and ressort None, whose only
\* parameter is date.
C8_Witness ==
    /\ url.status = "ok"
    /\ url.regions = <<>>
    /\ url.ressort = "None"
    /\ Len(QueryPairs(url.text)) = 1
    /\ QueryPairs(url.text)[1].name = ParamDate

----------------------------------------------------------------------------
(* Properties of TDate construction and formatting.                        *)

\* The six digits YYMMDD of a date: the last two digits of the year, the
\* month and the day, each as exactly two digits.
YYMMDD(year, month, day) ==
    LET yy == (IF year < 0 THEN 0 - year ELSE year) % 100
    IN  <<Digit(yy \div 10), Digit(yy % 10), Digit(month \div 10), Digit(month % 10),
          Digit(day \div 10), Digit(day % 10)>>

\* C11: for every valid date, the value of the date parameter of the URL is
\* exactly the six digits YYMMDD, the two-digit year zero-padded like the
\* month and the day.
C11_DateSixDigits ==
    made.status = "ok" =>
        /\ made.text = YYMMDD(made.year, made.month, made.day)
        /\ ParamValues(prepare_url(ressort, regions, made.tdate), ParamDate) =
               {YYMMDD(made.year, made.month, made.day)}

\* (year, month, day) is a day of the Gregorian calendar: the day lies in
\* the month, whose length is the distance between the first days of this
\* month and of the next.
IsRealDate(year, month, day) ==
    /\ month \in 1..12
    /\ day >= 1
    /\ day <= DayNumber(IF month = 12
                        THEN [year |-> year + 1, month |-> 1, day |-> 1]
                        ELSE [year |-> year, month |-> month + 1, day |-> 1])
              - DayNumber([year |-> year, month |-> month, day |-> 1])

\* A real date whose year the calendar type can hold.
ValidTriple(year, month, day) ==
    IsRealDate(year, month, day) /\ year >= MIN_YEAR /\ year <= MAX_YEAR

\* Reading decimal text back.
DigitValue(c) == CHOOSE n \in 0..9 : Digit(n) = c

IsDigits(t) == t # <<>> /\ \A i \in DOMAIN t : \E n \in 0..9 : Digit(n) = t[i]

RECURSIVE StrToNat(_)
StrToNat(t) ==
    IF t = <<>> THEN 0
    ELSE 10 * StrToNat(SubSeq(t, 1, Len(t) - 1)) + DigitValue(t[Len(t)])

\* The year's remainder modulo 100, negative for a negative year.
YearPart(year) == IF year >= 0 THEN year % 100 ELSE 0 - ((0 - year) % 100)

\* C13 (as stated): from_calendar_date succeeds on every valid triple, and
\* two different valid dates never format to the same string (the triple is
\* recoverable from the text).
C13_FormatInjective ==
    /\ (made.status # "none" /\ ValidTriple(made.year, made.month, made.day)) =>
           made.status = "ok"
    /\ (made.status = "ok" /\ made.before # <<>>
            /\ made.before[1].tdate # made.tdate) =>
           made.before[1].text # made.text

\* C13 (amended): from_calendar_date succeeds on every valid triple with the
\* year in -9999..9999 and the TDate holds exactly that triple; of the
\* triple, the formatted string gives back the day (its last two
\* characters), the month (the two before) and only the year's remainder
\* modulo 100 (the rest), so two dates format to the same string exactly
\* when they agree in day, month and that remainder.
C13_FormatKeepsYearModulo100 ==
    (made.status # "none" /\ ValidTriple(made.year, made.month, made.day)) =>
        /\ made.status = "ok"
        /\ made.tdate = [year |-> made.year, month |-> made.month, day |-> made.day]
        /\ LET n == Len(made.text)
               yy == SubSeq(made.text, 1, n - 4)
               mm == SubSeq(made.text, n - 3, n - 2)
               dd == SubSeq(made.text, n - 1, n)
           IN  /\ n >= 5
               /\ IsDigits(mm) /\ StrToNat(mm) = made.month
               /\ IsDigits(dd) /\ StrToNat(dd) = made.day
               /\ IF yy[1] = "-"
                  THEN IsDigits(Tail(yy)) /\ 0 - StrToNat(Tail(yy)) = YearPart(made.year)
                  ELSE IsDigits(yy) /\ StrToNat(yy) = YearPart(made.year)
        /\ made.before # <<>> =>
               LET b == made.before[1] IN
               (b.text = made.text) <=>
                   /\ b.tdate.day = made.day
                   /\ b.tdate.month = made.month
                   /\ YearPart(b.tdate.year) = YearPart(made.year)

\* C13 witness: two different valid dates, a hundred years apart, have been
\* made and formatted to the same string.
C13_Witness ==
    /\ made.status = "ok"
    /\ made.before # <<>>
    /\ made.before[1].tdate.year = made.tdate.year - 100
    /\ made.before[1].text = made.text

\* C14: from_calendar_date returns Error::DateParsingError, and no TDate, for
\* every triple that is not a real Gregorian calendar date; hence every TDate
\* made, and every TDate a DateRange holds, is a real calendar date.
C14_InvalidRejected ==
    /\ (made.status # "none" /\ ~IsRealDate(made.year, made.month, made.day)) =>
           /\ made.status = "err"
           /\ made.err = "DateParsingError"
           /\ "tdate" \notin DOMAIN made
    /\ made.status = "ok" =>
           /\ IsRealDate(made.tdate.year, made.tdate.month, made.tdate.day)
           /\ \A i \in DOMAIN made.before :
                  IsRealDate(made.before[i].tdate.year, made.before[i].tdate.month,
                             made.before[i].tdate.day)
    /\ range.status = "ok" =>
           \A i \in DOMAIN range.dates :
               IsRealDate(range.dates[i].year, range.dates[i].month, range.dates[i].day)

\* C14 witness: 29 February of a non-leap year has been refused.
C14_Witness ==
    /\ made.status = "err"
    /\ made.month = 2
    /\ made.day = 29
    /\ ~is_leap_year(made.year)
    /\ made.year <= MAX_YEAR

----------------------------------------------------------------------------
(* Properties of the decoding of one news item.                            *)

\* What both shapes ask of an item besides detailsweb, firstSentence and
\* streams: a title, an RFC 3339 date, a type, and no optional field that
\* fails to decode.
CommonFields(j) ==
    j.title # <<>> /\ j.date # <<>> /\ j.type /\ j.optional # "invalid"

\* The item has all that struct TextArticle requires.
TextShape(j) == CommonFields(j) /\ j.firstSentence /\ j.detailsweb

\* The item has all that struct Video requires.
VideoShape(j) == CommonFields(j) /\ j.streams

\* C12 (as stated): an item with streams and no detailsweb decodes to Video,
\* an item with detailsweb and no streams decodes to TextArticle, whatever
\* its other fields; TextArticle is tried first.
C12_DecodeByPresence ==
    decoded.status # "none" =>
        LET j == decoded.item IN
        /\ (j.streams /\ ~j.detailsweb) =>
               (decoded.status = "ok" /\ decoded.val.tag = "Video")
        /\ (j.detailsweb /\ ~j.streams) =>
               (decoded.status = "ok" /\ decoded.val.tag = "TextArticle")
        /\ (decoded.status = "ok" /\ decoded.val.tag = "Video") => ~TextShape(j)

\* C12 (amended): an item with streams and no detailsweb decodes to Video
\* when it also has title, date and type; an item with detailsweb and no
\* streams decodes to TextArticle when it also has title, firstSentence, date
\* and type; in both cases provided no optional field present fails to
\* decode.  TextArticle is tried first: an item that has the TextArticle
\* shape decodes to TextArticle even with streams, Video results only when
\* the TextArticle shape does not match, and an item of neither shape fails
\* with a deserialization error.
C12_DecodeByShape ==
    decoded.status # "none" =>
        LET j == decoded.item IN
        /\ (VideoShape(j) /\ ~j.detailsweb) =>
               (decoded.status = "ok" /\ decoded.val.tag = "Video")
        /\ (TextShape(j) /\ ~j.streams) =>
               (decoded.status = "ok" /\ decoded.val.tag = "TextArticle")
        /\ TextShape(j) => (decoded.status = "ok" /\ decoded.val.tag = "TextArticle")
        /\ (decoded.status = "ok" /\ decoded.val.tag = "Video") =>
               (VideoShape(j) /\ ~TextShape(j))
        /\ (~TextShape(j) /\ ~VideoShape(j)) =>
               (decoded.status = "err" /\ decoded.err.kind = "DeserializationError")

\* C12 witness: an item with streams and a firstSentence but no detailsweb
\* has decoded to Video, after the TextArticle shape did not match.
C12_Witness ==
    /\ decoded.status = "ok"
    /\ decoded.val.tag = "Video"
    /\ decoded.item.streams /\ ~decoded.item.detailsweb /\ decoded.item.firstSentence
    /\ decoded.item.optional = "valid"

====
